---- MODULE Spec2Model ----
(***************************************************************************)
(* Discrete-event queueing simulator (ConsoleApplication1.cpp):            *)
(* sources -> round-robin device selector -> devices, with a bounded       *)
(* buffer using packet service, source-priority selection and eviction.    *)
(*                                                                         *)
(* Time is counted in ticks of 0.5 simulated time units, so the uniform    *)
(* inter-arrival interval [1.5 + 0.5 i, 2.5 + 0.5 i) of source i is the    *)
(* tick range 3+i .. 4+i.  Every random draw is a nondeterministic choice  *)
(* from the support of its distribution, cut to a small set.               *)
(***************************************************************************)
EXTENDS Integers, Sequences, FiniteSets, Bags

VARIABLES
    calendar,               \* SimulationModel::calendar, a bag of events
    sources,                \* SimulationModel::sources, source id -> Source
    devices,                \* SimulationModel::devices, device id -> Device
    buffer,                 \* Buffer::buffer, the queue front first
    max_size,               \* Buffer::max_size
    last_used,              \* DeviceSelector::last_used
    num_devices,            \* DeviceSelector::num_devices
    current_time,           \* SimulationModel::current_time
    current_serving_source, \* SimulationModel::current_serving_source
    requests_generated,
    requests_served,
    requests_rejected,
    source_requests,
    source_rejections,
    source_total_time,
    source_waiting_time,
    device_busy_time,
    max_time,               \* parameter of run()
    max_requests,           \* parameter of run()
    pc,                     \* position in run(): "loop" or "stopped"
    source_served,          \* history: per-source number of completed services
    freed,                  \* history: the requests that have been deleted
    calls                   \* history: the calls made by the unit specifications

vars == <<calendar, sources, devices, buffer, max_size, last_used, num_devices,
          current_time, current_serving_source, requests_generated,
          requests_served, requests_rejected, source_requests,
          source_rejections, source_total_time, source_waiting_time,
          device_busy_time, max_time, max_requests, pc, source_served, freed,
          calls>>

(***************************************************************************)
(* Configuration of the shipped program and bounds of the model.           *)
(***************************************************************************)
NumSources == 3

NumDevices == 2

BufferSize == 3

INT_MAX == 2147483647

\* Largest max_time (in ticks) handed to run().
MaxTime == 10

\* Largest max_requests handed to run().
MaxRequests == 3

\* The long service time drawn besides 0 and 1 (exponential support is [0, oo)).
MaxService == 7

\* Largest constant inter-arrival interval of the one-source scenarios.
MaxInterval == 3

\* Longest queue the buffer operations are called on directly.
MaxQueue == 3

\* Largest device pool the selector is called on directly.
MaxDevices == 3

\* Most consecutive direct calls of one operation.
MaxCalls == 3

(***************************************************************************)
(* Request, Source, Device, Event                                          *)
(***************************************************************************)
\* nullptr of type Request*
NULL == [source_id |-> -1, request_id |-> 0, arrival_time |-> 0,
         start_service_time |-> 0, finish_service_time |-> 0]

Request(src_id, req_id, arr_time) ==
    [source_id |-> src_id, request_id |-> req_id, arrival_time |-> arr_time,
     start_service_time |-> 0, finish_service_time |-> 0]

Source(id, min_int, max_int) ==
    [source_id |-> id, min_int |-> min_int, max_int |-> max_int]

\* Faulty variant of GetNextInterval: max_int itself can be drawn.
GetNextInterval_Inclusive(src) == src.min_int .. src.max_int

\* uniform_real_distribution(min_int, max_int): a value of [min_int, max_int)
GetNextInterval(src) == src.min_int .. (src.max_int - 1)

\* dist holds the values the device's service-time distribution can give:
\* exponential_distribution gives any value >= 0, cut here to three.
Device(id) ==
    [device_id |-> id, dist |-> {0, 1, MaxService}, current_request |-> NULL]

GetServiceTime(dev) == dev.dist

IsFree(dev) == dev.current_request = NULL

\* Faulty variant of StartService: the service-start time is not stamped.
StartService_NoStamp(dev, request, now) ==
    [dev EXCEPT !.current_request = request]

StartService(dev, request, now) ==
    [dev EXCEPT !.current_request =
                    [request EXCEPT !.start_service_time = now]]

\* Faulty variant of FinishService: the device keeps its occupant.
FinishService_Keep(dev) ==
    [finished |-> dev.current_request, device |-> dev]

\* returns the finished request and the device after the call
FinishService(dev) ==
    [finished |-> dev.current_request,
     device   |-> [dev EXCEPT !.current_request = NULL]]

\* What tells one Request object from another: objects of one source get
\* consecutive request ids.
Identity(request) == <<request.source_id, request.request_id>>

Event(t, tp, id, req) ==
    [time |-> t, type |-> tp, entity_id |-> id, request |-> req]

(***************************************************************************)
(* Buffer                                                                  *)
(***************************************************************************)
\* Faulty variant of IsFull: the comparison is strict.
IsFull_Strict(buf, size) == Len(buf) > size

IsFull(buf, size) == Len(buf) >= size

\* Faulty variant of IsEmpty: the buffer always reports itself empty.
IsEmpty_Always(buf) == TRUE

IsEmpty(buf) == buf = <<>>

AddRequest(buf, request) == Append(buf, request)

\* First loop of getNextRequest: pops every request of the queue, keeps the
\* first one of source src in found and pushes the others to temp.
RECURSIVE PacketLoop(_, _, _, _)
PacketLoop(buf, temp, found, src) ==
    IF buf = <<>>
    THEN [found |-> found, temp |-> temp]
    ELSE LET req == Head(buf) IN
         IF req.source_id = src /\ found = NULL
         THEN PacketLoop(Tail(buf), temp, req, src)
         ELSE PacketLoop(Tail(buf), Append(temp, req), found, src)

\* Second loop of getNextRequest: keeps the request of the smallest source
\* id; a request that stops being the best is pushed to temp at that moment.
RECURSIVE BestLoop(_, _, _, _)
BestLoop(buf, temp, best_request, best_source) ==
    IF buf = <<>>
    THEN [best_request |-> best_request, best_source |-> best_source,
          temp |-> temp]
    ELSE LET req == Head(buf) IN
         IF req.source_id < best_source
         THEN BestLoop(Tail(buf),
                       IF best_request # NULL THEN Append(temp, best_request)
                                              ELSE temp,
                       req, req.source_id)
         ELSE BestLoop(Tail(buf), Append(temp, req), best_request, best_source)

\* Faulty variant of SelectBest: the marker is not set to the source that was chosen.
SelectBest_MarkerNotSet(buf) ==
    IF buf = <<>>
    THEN [request |-> NULL, buffer |-> buf, current_serving_source |-> -1]
    ELSE LET r == BestLoop(buf, <<>>, NULL, INT_MAX) IN
         [request |-> r.best_request, buffer |-> r.temp,
          current_serving_source |-> -1]

\* The part of getNextRequest after the packet branch.
SelectBest(buf) ==
    IF buf = <<>>
    THEN [request |-> NULL, buffer |-> buf, current_serving_source |-> -1]
    ELSE LET r == BestLoop(buf, <<>>, NULL, INT_MAX) IN
         [request |-> r.best_request, buffer |-> r.temp,
          current_serving_source |->
              IF r.best_request # NULL THEN r.best_source ELSE -1]

\* Faulty variant of GetNextRequest: the packet branch is skipped.
GetNextRequest_NoPacket(buf, serving) == SelectBest(buf)

\* Buffer::getNextRequest(int& current_serving_source): the returned request,
\* the queue after the call and the marker after the call.
GetNextRequest(buf, serving) ==
    IF buf = <<>>
    THEN [request |-> NULL, buffer |-> buf, current_serving_source |-> -1]
    ELSE IF serving # -1
         THEN LET p == PacketLoop(buf, <<>>, NULL, serving) IN
              IF p.found # NULL
              THEN [request |-> p.found, buffer |-> p.temp,
                    current_serving_source |-> serving]
              ELSE SelectBest(p.temp)
         ELSE SelectBest(buf)

\* Faulty variant of WorstLoop: a request that stops being the worst is not
\* pushed back to temp.
RECURSIVE WorstLoop_DropsPrevious(_, _, _, _)
WorstLoop_DropsPrevious(buf, temp, worst_request, worst_source) ==
    IF buf = <<>>
    THEN [worst_request |-> worst_request, temp |-> temp]
    ELSE LET req == Head(buf) IN
         IF req.source_id > worst_source
         THEN WorstLoop_DropsPrevious(Tail(buf), temp, req, req.source_id)
         ELSE WorstLoop_DropsPrevious(Tail(buf), Append(temp, req),
                                      worst_request, worst_source)

RECURSIVE WorstLoop(_, _, _, _)
WorstLoop(buf, temp, worst_request, worst_source) ==
    IF buf = <<>>
    THEN [worst_request |-> worst_request, temp |-> temp]
    ELSE LET req == Head(buf) IN
         IF req.source_id > worst_source
         THEN WorstLoop(Tail(buf),
                        IF worst_request # NULL
                        THEN Append(temp, worst_request) ELSE temp,
                        req, req.source_id)
         ELSE WorstLoop(Tail(buf), Append(temp, req), worst_request,
                        worst_source)

\* Faulty variant of FindRequestToReject: the request of the smallest source is taken.
FindRequestToReject_Smallest(buf) ==
    IF buf = <<>>
    THEN [request |-> NULL, buffer |-> buf]
    ELSE LET r == BestLoop(buf, <<>>, NULL, INT_MAX) IN
         [request |-> r.best_request, buffer |-> r.temp]

\* Buffer::findRequestToReject(): the returned request and the queue after
\* the call (the returned request is not pushed back).
FindRequestToReject(buf) ==
    IF buf = <<>>
    THEN [request |-> NULL, buffer |-> buf]
    ELSE LET r == WorstLoop(buf, <<>>, NULL, -1) IN
         [request |-> r.worst_request, buffer |-> r.temp]

\* Faulty variant of RemoveRequest: requests are compared by source, not by identity.
RemoveRequest_BySource(buf, request) ==
    SelectSeq(buf, LAMBDA req : req.source_id # request.source_id)

RemoveRequest(buf, request) == SelectSeq(buf, LAMBDA req : req # request)

(***************************************************************************)
(* DeviceSelector                                                          *)
(***************************************************************************)
\* Faulty variant of FreeLoop: the device at start_index is taken without
\* asking isFree().
FreeLoop_NoCheck(devs, start_index, i, n) ==
    IF i >= n THEN -1 ELSE (start_index + i) % n

RECURSIVE FreeLoop(_, _, _, _)
FreeLoop(devs, start_index, i, n) ==
    IF i >= n
    THEN -1
    ELSE LET idx == (start_index + i) % n IN
         IF IsFree(devs[idx]) THEN idx ELSE FreeLoop(devs, start_index, i + 1, n)

\* Faulty variant of GetFreeDevice: last_used is not moved to the returned device.
GetFreeDevice_CursorKept(devs, last, n) ==
    IF DOMAIN devs = {}
    THEN [device |-> -1, last_used |-> last]
    ELSE [device |-> FreeLoop(devs, (last + 1) % n, 0, n), last_used |-> last]

\* Faulty variant of GetFreeDevice: only the device after the cursor is tried.
GetFreeDevice_NextOnly(devs, last, n) ==
    IF DOMAIN devs = {}
    THEN [device |-> -1, last_used |-> last]
    ELSE LET idx == (last + 1) % n IN
         IF IsFree(devs[idx])
         THEN [device |-> idx, last_used |-> idx]
         ELSE [device |-> -1, last_used |-> last]

\* DeviceSelector::getFreeDevice: the index of the returned device (-1 for
\* nullptr) and last_used after the call.
GetFreeDevice(devs, last, n) ==
    IF DOMAIN devs = {}
    THEN [device |-> -1, last_used |-> last]
    ELSE LET idx == FreeLoop(devs, (last + 1) % n, 0, n) IN
         [device |-> idx, last_used |-> IF idx # -1 THEN idx ELSE last]

(***************************************************************************)
(* SimulationModel                                                         *)
(***************************************************************************)
Schedule(cal, event) == cal (+) SetToBag({event})

\* Faulty variant of IsTop: Event::operator> compares the other way round.
IsTop_Latest(cal, event) ==
    /\ BagIn(event, cal)
    /\ \A other \in BagToSet(cal) : ~(event.time < other.time)

\* calendar.top() of a priority_queue ordered by greater<Event>: an event no
\* other event is smaller than (Event::operator> compares the times only, and
\* the order among equal times is the heap's).
IsTop(cal, event) ==
    /\ BagIn(event, cal)
    /\ \A other \in BagToSet(cal) : ~(event.time > other.time)

\* Faulty variant of Pop: the processed event stays in the calendar.
Pop_Keeps(cal, event) == cal

Pop(cal, event) == cal (-) SetToBag({event})

\* The constructor, with the first arrival of every source drawn.
Constructed(first_time) ==
    /\ sources = [i \in 0 .. NumSources - 1 |-> Source(i, 3 + i, 5 + i)]
    /\ devices = [i \in 0 .. NumDevices - 1 |-> Device(i)]
    /\ buffer = <<>>
    /\ max_size = BufferSize
    /\ last_used = -1
    /\ num_devices = NumDevices
    /\ current_time = 0
    /\ current_serving_source = -1
    /\ requests_generated = 0
    /\ requests_served = 0
    /\ requests_rejected = 0
    /\ source_requests = [i \in 0 .. NumSources - 1 |-> 0]
    /\ source_rejections = [i \in 0 .. NumSources - 1 |-> 0]
    /\ source_total_time = [i \in 0 .. NumSources - 1 |-> 0]
    /\ source_waiting_time = [i \in 0 .. NumSources - 1 |-> 0]
    /\ device_busy_time = [i \in 0 .. NumDevices - 1 |-> 0]
    /\ calendar = SetToBag({Event(first_time[i], "ARRIVAL", i, NULL) :
                                i \in 0 .. NumSources - 1})
    /\ source_served = [i \in 0 .. NumSources - 1 |-> 0]
    /\ freed = {}

\* The state when run(max_time, max_requests) enters its loop.
Init ==
    /\ \E first_time \in
            [0 .. NumSources - 1 ->
                UNION {GetNextInterval(Source(i, 3 + i, 5 + i)) :
                           i \in 0 .. NumSources - 1}] :
          /\ \A i \in 0 .. NumSources - 1 :
                first_time[i] \in GetNextInterval(Source(i, 3 + i, 5 + i))
          /\ Constructed(first_time)
    /\ max_time \in 0 .. MaxTime
    /\ max_requests \in 0 .. MaxRequests
    /\ pc = "loop"
    /\ calls = <<>>

\* processArrival(source_id), run at clock now with calendar cal.
ProcessArrival(source_id, now, cal) ==
    LET request == Request(source_id, source_requests[source_id] + 1, now)
        sel == GetFreeDevice(devices, last_used, num_devices)
    IN
    /\ requests_generated' = requests_generated + 1
    /\ source_requests' = [source_requests EXCEPT ![source_id] = @ + 1]
    /\ last_used' = sel.last_used
    /\ \E interval \in GetNextInterval(sources[source_id]) :
         LET cal1 == Schedule(cal, Event(now + interval, "ARRIVAL", source_id, NULL))
         IN
         IF sel.device # -1
         THEN \E service_time \in GetServiceTime(devices[sel.device]) :
                LET started == StartService(devices[sel.device], request, now) IN
                /\ devices' = [devices EXCEPT ![sel.device] = started]
                /\ calendar' = Schedule(cal1, Event(now + service_time, "DEPARTURE",
                                               started.device_id,
                                               started.current_request))
                /\ UNCHANGED <<buffer, source_rejections, requests_rejected,
                               freed>>
         ELSE /\ calendar' = cal1
              /\ UNCHANGED devices
              /\ IF ~IsFull(buffer, max_size)
                 THEN /\ buffer' = AddRequest(buffer, request)
                      /\ UNCHANGED <<source_rejections, requests_rejected,
                                     freed>>
                 ELSE LET rej == FindRequestToReject(buffer) IN
                      IF rej.request # NULL
                      THEN /\ source_rejections' =
                                [source_rejections EXCEPT
                                    ![rej.request.source_id] = @ + 1]
                           /\ requests_rejected' = requests_rejected + 1
                           /\ buffer' = AddRequest(
                                 RemoveRequest(rej.buffer, rej.request), request)
                           /\ freed' = freed \cup {Identity(rej.request)}
                      ELSE /\ buffer' = AddRequest(rej.buffer, request)
                           /\ UNCHANGED <<source_rejections, requests_rejected,
                                          freed>>
    /\ UNCHANGED <<current_serving_source, requests_served, source_total_time,
                   source_waiting_time, device_busy_time, source_served>>

\* processDeparture(device_id), run at clock now with calendar cal.
ProcessDeparture(device_id, now, cal) ==
    LET fin == FinishService(devices[device_id])
        devs1 == [devices EXCEPT ![device_id] = fin.device]
        finished_request ==
            [fin.finished EXCEPT !.finish_service_time = now]
        total_time == finished_request.finish_service_time
                          - finished_request.arrival_time
        waiting_time == finished_request.start_service_time
                          - finished_request.arrival_time
    IN
    /\ IF fin.finished # NULL
       THEN /\ requests_served' = requests_served + 1
            /\ source_total_time' =
                 [source_total_time EXCEPT
                     ![finished_request.source_id] = @ + total_time]
            /\ source_waiting_time' =
                 [source_waiting_time EXCEPT
                     ![finished_request.source_id] = @ + waiting_time]
            /\ device_busy_time' =
                 [device_busy_time EXCEPT
                     ![device_id] = @ + (finished_request.finish_service_time
                                          - finished_request.start_service_time)]
            /\ source_served' =
                 [source_served EXCEPT ![finished_request.source_id] = @ + 1]
            /\ freed' = freed \cup {Identity(finished_request)}
       ELSE UNCHANGED <<requests_served, source_total_time, source_waiting_time,
                        device_busy_time, source_served, freed>>
    /\ IF ~IsEmpty(buffer)
       THEN LET next == GetNextRequest(buffer, current_serving_source) IN
            /\ current_serving_source' = next.current_serving_source
            /\ IF next.request # NULL
               THEN LET sel == GetFreeDevice(devs1, last_used, num_devices) IN
                    /\ buffer' = RemoveRequest(next.buffer, next.request)
                    /\ last_used' = sel.last_used
                    /\ IF sel.device # -1
                       THEN \E service_time \in GetServiceTime(devs1[sel.device]) :
                              LET started == StartService(devs1[sel.device],
                                                          next.request, now) IN
                              /\ devices' = [devs1 EXCEPT ![sel.device] = started]
                              /\ calendar' =
                                   Schedule(cal, Event(now + service_time,
                                                       "DEPARTURE",
                                                       started.device_id,
                                                       started.current_request))
                       ELSE /\ devices' = devs1
                            /\ calendar' = cal
               ELSE /\ buffer' = next.buffer
                    /\ devices' = devs1
                    /\ calendar' = cal
                    /\ UNCHANGED last_used
       ELSE /\ devices' = devs1
            /\ calendar' = cal
            /\ UNCHANGED <<buffer, current_serving_source, last_used>>
    /\ UNCHANGED <<requests_generated, requests_rejected, source_requests,
                   source_rejections>>

\* Faulty variant of LoopCond: the clock may equal max_time.
LoopCond_TimeInclusive ==
    /\ calendar # EmptyBag
    /\ current_time <= max_time
    /\ requests_served < max_requests

\* Faulty variant of LoopCond: the served count may equal max_requests.
LoopCond_ServedInclusive ==
    /\ calendar # EmptyBag
    /\ current_time < max_time
    /\ requests_served <= max_requests

\* The condition of the while loop of run().
LoopCond ==
    /\ calendar # EmptyBag
    /\ current_time < max_time
    /\ requests_served < max_requests

\* One iteration of the loop of run() that pops an ARRIVAL event.
RunArrival ==
    /\ pc = "loop"
    /\ LoopCond
    /\ \E event \in BagToSet(calendar) :
          /\ IsTop(calendar, event)
          /\ event.type = "ARRIVAL"
          /\ current_time' = event.time
          /\ ProcessArrival(event.entity_id, event.time, Pop(calendar, event))
    /\ UNCHANGED <<sources, max_size, num_devices, max_time, max_requests, pc,
                   calls>>

\* One iteration of the loop of run() that pops a DEPARTURE event.
RunDeparture ==
    /\ pc = "loop"
    /\ LoopCond
    /\ \E event \in BagToSet(calendar) :
          /\ IsTop(calendar, event)
          /\ event.type = "DEPARTURE"
          /\ current_time' = event.time
          /\ ProcessDeparture(event.entity_id, event.time, Pop(calendar, event))
    /\ UNCHANGED <<sources, max_size, num_devices, max_time, max_requests, pc,
                   calls>>

\* The loop of run() ends and printResults() is called.
RunStop ==
    /\ pc = "loop"
    /\ ~LoopCond
    /\ pc' = "stopped"
    /\ UNCHANGED <<calendar, sources, devices, buffer, max_size, last_used,
                   num_devices, current_time, current_serving_source,
                   requests_generated, requests_served, requests_rejected,
                   source_requests, source_rejections, source_total_time,
                   source_waiting_time, device_busy_time, max_time,
                   max_requests, source_served, freed, calls>>

\* The loop entered by a model of one source with the constant interval
\* interval, one device with the constant service time service, a buffer of
\* capacity size, and run(1000.0, limit).  (The variate generators are
\* replaced by constants, as in the end-to-end scenario of the design.)
Scenario(interval, service, size, limit) ==
    /\ sources = [i \in {0} |-> Source(i, interval, interval + 1)]
    /\ devices = [i \in {0} |-> [Device(i) EXCEPT !.dist = {service}]]
    /\ buffer = <<>>
    /\ max_size = size
    /\ last_used = -1
    /\ num_devices = 1
    /\ current_time = 0
    /\ current_serving_source = -1
    /\ requests_generated = 0
    /\ requests_served = 0
    /\ requests_rejected = 0
    /\ source_requests = [i \in {0} |-> 0]
    /\ source_rejections = [i \in {0} |-> 0]
    /\ source_total_time = [i \in {0} |-> 0]
    /\ source_waiting_time = [i \in {0} |-> 0]
    /\ device_busy_time = [i \in {0} |-> 0]
    /\ calendar = SetToBag({Event(interval, "ARRIVAL", 0, NULL)})
    /\ source_served = [i \in {0} |-> 0]
    /\ freed = {}
    /\ max_time = 2 * 1000
    /\ max_requests = limit
    /\ pc = "loop"
    /\ calls = <<>>

InitScenario ==
    \E interval \in 1 .. MaxInterval, service \in 0 .. MaxService,
       size \in 0 .. BufferSize, limit \in 0 .. MaxRequests :
        Scenario(interval, service, size, limit)

Next == RunArrival \/ RunDeparture \/ RunStop

Spec == Init /\ [][Next]_vars

SpecScenario == InitScenario /\ [][Next]_vars

\* run() is one thread that keeps executing its loop until the condition fails.
FairSpec == Spec /\ WF_vars(Next)

\* printResults: the count the per-source means are divided by.
served_requests(i) == source_requests[i] - source_rejections[i]

\* run() has left its loop and printed the results.
Stopped == pc = "stopped"

(***************************************************************************)
(* Properties of a run                                                     *)
(***************************************************************************)
DeviceIds == DOMAIN devices

SourceIds == DOMAIN sources

BusyDevices == {d \in DeviceIds : devices[d].current_request # NULL}

AllBusy == BusyDevices = DeviceIds

Buffered == {buffer[i] : i \in 1 .. Len(buffer)}

\* The number of requests of source s in the buffer or on a device.
Pending(s) ==
    Cardinality({i \in 1 .. Len(buffer) : buffer[i].source_id = s})
      + Cardinality({d \in BusyDevices : devices[d].current_request.source_id = s})

\* C1: in every reachable state the buffer holds at most max_size requests
\* (max_size = 3 in the shipped configuration).
BufferWithinCapacity == Len(buffer) <= max_size

\* The buffer is at its capacity right after an eviction made room.
BufferFullAfterEviction ==
    /\ Len(buffer) = max_size
    /\ max_size = BufferSize
    /\ requests_rejected > 0

\* C2: after every event, generated = served + rejected + requests in the
\* buffer + busy devices.
Conservation ==
    requests_generated =
        requests_served + requests_rejected + Len(buffer)
          + Cardinality(BusyDevices)

\* Every term of the conservation sum is positive.
ConservationAllTerms ==
    /\ requests_served > 0
    /\ requests_rejected > 0
    /\ Len(buffer) > 0
    /\ Cardinality(BusyDevices) > 0

\* C3: after every event and for every source s, source_requests[s] =
\* completed services of s + source_rejections[s] + requests of s in the
\* buffer or on a device.
PerSourceConservation ==
    \A s \in SourceIds :
        source_requests[s] =
            source_served[s] + source_rejections[s] + Pending(s)

\* One source has a rejected and a pending request, and some source has a
\* served one.
PerSourceAllTerms ==
    /\ \E s \in SourceIds :
          /\ source_rejections[s] > 0
          /\ Pending(s) > 0
    /\ \E s \in SourceIds : source_served[s] > 0

\* The largest source id among the buffered requests.
LargestSource(buf) ==
    CHOOSE m \in {buf[i].source_id : i \in 1 .. Len(buf)} :
        \A i \in 1 .. Len(buf) : buf[i].source_id <= m

\* An Arrival of source s is handled in this step.
ArrivalOf(s) ==
    /\ requests_generated' = requests_generated + 1
    /\ source_requests'[s] = source_requests[s] + 1

\* C4: an Arrival handled with every device busy and the buffer full
\* (max_size >= 1) removes exactly one buffered request, of the largest
\* source id in the buffer whatever the arriving source, counts one rejection
\* globally and for the evictee's source, and inserts the arriving request,
\* so the buffer holds max_size requests again.
EvictionOnArrival ==
    [][\A s \in SourceIds :
         (ArrivalOf(s) /\ AllBusy /\ Len(buffer) >= max_size /\ max_size >= 1)
         => LET arriving == Request(s, source_requests'[s], current_time') IN
            /\ \E i \in 1 .. Len(buffer) :
                  /\ buffer[i].source_id = LargestSource(buffer)
                  /\ {buffer'[j] : j \in 1 .. Len(buffer')} =
                        (Buffered \ {buffer[i]}) \cup {arriving}
            /\ arriving \notin Buffered
            /\ Len(buffer') = max_size
            /\ requests_rejected' = requests_rejected + 1
            /\ source_rejections' =
                 [source_rejections EXCEPT ![LargestSource(buffer)] = @ + 1]
      ]_vars

\* An arrival has just evicted a request of a smaller source id than its own:
\* with one departure so far (before the buffer filled), the only rejection
\* is the one made by the request that arrived last.
EvictedByLowerPriorityArrival ==
    /\ requests_rejected = 1
    /\ requests_served = 1
    /\ Len(buffer) = max_size
    /\ buffer[Len(buffer)].arrival_time = current_time
    /\ \E s \in SourceIds :
          /\ source_rejections[s] = 1
          /\ s < buffer[Len(buffer)].source_id

(***************************************************************************)
(* The buffer and the device selector called directly, on every input      *)
(***************************************************************************)
\* The members of SimulationModel a direct call does not touch.
EngineIdle ==
    /\ calendar = EmptyBag
    /\ sources = [i \in 0 .. NumSources - 1 |-> Source(i, 3 + i, 5 + i)]
    /\ current_time = 0
    /\ requests_generated = 0
    /\ requests_served = 0
    /\ requests_rejected = 0
    /\ source_requests = [i \in 0 .. NumSources - 1 |-> 0]
    /\ source_rejections = [i \in 0 .. NumSources - 1 |-> 0]
    /\ source_total_time = [i \in 0 .. NumSources - 1 |-> 0]
    /\ source_waiting_time = [i \in 0 .. NumSources - 1 |-> 0]
    /\ source_served = [i \in 0 .. NumSources - 1 |-> 0]
    /\ freed = {}
    /\ max_time = 0
    /\ max_requests = 0
    /\ pc = "unit"
    /\ calls = <<>>

\* Every queue of at most MaxQueue requests (told apart by their ids) of the
\* sources, with every value of the marker.
InitBuffer ==
    /\ EngineIdle
    /\ \E n \in 0 .. MaxQueue :
         \E src \in [1 .. n -> 0 .. NumSources - 1] :
            buffer = [i \in 1 .. n |-> Request(src[i], i, 0)]
    /\ max_size = BufferSize
    /\ current_serving_source \in -1 .. NumSources - 1
    /\ devices = [i \in 0 .. NumDevices - 1 |-> Device(i)]
    /\ device_busy_time = [i \in 0 .. NumDevices - 1 |-> 0]
    /\ num_devices = NumDevices
    /\ last_used = -1

\* buffer->getNextRequest(current_serving_source)
CallGetNextRequest ==
    /\ pc = "unit"
    /\ Len(calls) < MaxCalls
    /\ LET r == GetNextRequest(buffer, current_serving_source) IN
       /\ buffer' = r.buffer
       /\ current_serving_source' = r.current_serving_source
       /\ calls' = Append(calls,
                     [buffer |-> buffer, marker |-> current_serving_source,
                      returned |-> r.request, buffer_after |-> r.buffer,
                      marker_after |-> r.current_serving_source])
    /\ UNCHANGED <<calendar, sources, devices, max_size, last_used, num_devices,
                   current_time, requests_generated, requests_served,
                   requests_rejected, source_requests, source_rejections,
                   source_total_time, source_waiting_time, device_busy_time,
                   max_time, max_requests, pc, source_served,
                   freed>>

NextBuffer == CallGetNextRequest

SpecBuffer == InitBuffer /\ [][NextBuffer]_vars

\* The requests of InitBuffer carry their place in the insertion order as
\* request id; the next inserted request gets the next one.
NextInsertion ==
    LET ids == {buffer[i].request_id : i \in 1 .. Len(buffer)} \cup
               UNION {{calls[k].buffer[i].request_id :
                          i \in 1 .. Len(calls[k].buffer)} :
                      k \in 1 .. Len(calls)}
    IN IF ids = {} THEN 1
       ELSE 1 + CHOOSE m \in ids : \A x \in ids : x <= m

\* buffer->addRequest(request), done by processArrival when the buffer is
\* not full (or has just been made room in)
OpAddRequest ==
    /\ pc = "unit"
    /\ Len(calls) < MaxCalls
    /\ Len(buffer) < MaxQueue
    /\ \E s \in 0 .. NumSources - 1 :
         LET request == Request(s, NextInsertion, 0) IN
         /\ buffer' = AddRequest(buffer, request)
         /\ calls' = Append(calls,
                       [op |-> "insert", buffer |-> buffer,
                        marker |-> current_serving_source,
                        returned |-> request])
    /\ UNCHANGED <<calendar, sources, devices, max_size, last_used, num_devices,
                   current_time, current_serving_source, requests_generated,
                   requests_served, requests_rejected, source_requests,
                   source_rejections, source_total_time, source_waiting_time,
                   device_busy_time, max_time, max_requests, pc, source_served,
                   freed>>

\* buffer->getNextRequest(current_serving_source), then
\* buffer->removeRequest(next_request), as processDeparture does
OpSelectNext ==
    /\ pc = "unit"
    /\ Len(calls) < MaxCalls
    /\ LET r == GetNextRequest(buffer, current_serving_source) IN
       /\ buffer' = IF r.request # NULL
                    THEN RemoveRequest(r.buffer, r.request) ELSE r.buffer
       /\ current_serving_source' = r.current_serving_source
       /\ calls' = Append(calls,
                     [op |-> "selectNext", buffer |-> buffer,
                      marker |-> current_serving_source,
                      returned |-> r.request])
    /\ UNCHANGED <<calendar, sources, devices, max_size, last_used, num_devices,
                   current_time, requests_generated, requests_served,
                   requests_rejected, source_requests, source_rejections,
                   source_total_time, source_waiting_time, device_busy_time,
                   max_time, max_requests, pc, source_served, freed>>

\* buffer->findRequestToReject(), then buffer->removeRequest(rejected_request),
\* as processArrival does
OpEvict ==
    /\ pc = "unit"
    /\ Len(calls) < MaxCalls
    /\ LET r == FindRequestToReject(buffer) IN
       /\ buffer' = IF r.request # NULL
                    THEN RemoveRequest(r.buffer, r.request) ELSE r.buffer
       /\ calls' = Append(calls,
                     [op |-> "evict", buffer |-> buffer,
                      marker |-> current_serving_source,
                      returned |-> r.request])
    /\ UNCHANGED <<calendar, sources, devices, max_size, last_used, num_devices,
                   current_time, current_serving_source, requests_generated,
                   requests_served, requests_rejected, source_requests,
                   source_rejections, source_total_time, source_waiting_time,
                   device_busy_time, max_time, max_requests, pc, source_served,
                   freed>>

NextBufferOps == OpAddRequest \/ OpSelectNext \/ OpEvict

SpecBufferOps == InitBuffer /\ [][NextBufferOps]_vars

\* Every pool of 1 .. MaxDevices devices, each free or busy, with every value
\* of last_used.
InitSelector ==
    /\ EngineIdle
    /\ buffer = <<>>
    /\ max_size = BufferSize
    /\ current_serving_source = -1
    /\ num_devices \in 1 .. MaxDevices
    /\ \E busy \in SUBSET (0 .. num_devices - 1) :
         devices = [i \in 0 .. num_devices - 1 |->
                      IF i \in busy
                      THEN StartService(Device(i), Request(0, i + 1, 0), 0)
                      ELSE Device(i)]
    /\ device_busy_time = [i \in 0 .. num_devices - 1 |-> 0]
    /\ last_used \in -1 .. num_devices - 1

\* device_selector->getFreeDevice(devices)
CallGetFreeDevice ==
    /\ pc = "unit"
    /\ Len(calls) < MaxCalls
    /\ LET r == GetFreeDevice(devices, last_used, num_devices) IN
       /\ last_used' = r.last_used
       /\ calls' = Append(calls,
                     [last_used |-> last_used, returned |-> r.device,
                      last_used_after |-> r.last_used])
    /\ UNCHANGED <<calendar, sources, devices, buffer, max_size, num_devices,
                   current_time, current_serving_source, requests_generated,
                   requests_served, requests_rejected, source_requests,
                   source_rejections, source_total_time, source_waiting_time,
                   device_busy_time, max_time, max_requests, pc, source_served,
                   freed>>

NextSelector == CallGetFreeDevice

SpecSelector == InitSelector /\ [][NextSelector]_vars

(***************************************************************************)
(* Properties of the direct calls                                          *)
(***************************************************************************)
SourcesIn(buf) == {buf[i].source_id : i \in 1 .. Len(buf)}

RequestsIn(buf) == {buf[i] : i \in 1 .. Len(buf)}

SmallestSource(buf) ==
    CHOOSE m \in SourcesIn(buf) : \A x \in SourcesIn(buf) : m <= x

\* C5: when the marker names a source that has a request in the buffer,
\* getNextRequest returns a buffered request of that source and leaves the
\* marker as it was, also when a smaller source id is buffered.
PacketContinuity ==
    \A k \in 1 .. Len(calls) :
        LET c == calls[k] IN
        (c.marker \in 0 .. NumSources - 1 /\ c.marker \in SourcesIn(c.buffer))
        => /\ c.returned \in RequestsIn(c.buffer)
           /\ c.returned.source_id = c.marker
           /\ c.marker_after = c.marker

\* A call continued the packet of source 1 although source 0 was buffered.
PacketContinuedOverHigherPriority ==
    \E k \in 1 .. Len(calls) :
        /\ calls[k].marker = 1
        /\ {0, 1} \subseteq SourcesIn(calls[k].buffer)
        /\ calls[k].returned.source_id = 1

\* C6: on a non-empty buffer with the marker "none" (-1) or naming a source
\* with no buffered request, getNextRequest returns a buffered request of the
\* smallest buffered source id and sets the marker to it; on an empty buffer
\* it returns nullptr and sets the marker to -1.
PrioritySelection ==
    \A k \in 1 .. Len(calls) :
        LET c == calls[k] IN
        /\ (c.buffer # <<>> /\ c.marker \notin SourcesIn(c.buffer))
           => /\ c.returned \in RequestsIn(c.buffer)
              /\ c.returned.source_id = SmallestSource(c.buffer)
              /\ c.marker_after = SmallestSource(c.buffer)
        /\ c.buffer = <<>>
           => /\ c.returned = NULL
              /\ c.marker_after = -1

\* One call chose the smallest source, which was not at the front, with the
\* marker naming an absent source, and a later call found the buffer empty
\* with the marker still set.
PrioritySelectedThenEmpty ==
    /\ \E k \in 1 .. Len(calls) :
          /\ calls[k].marker \in 0 .. NumSources - 1
          /\ calls[k].marker \notin SourcesIn(calls[k].buffer)
          /\ Len(calls[k].buffer) >= 2
          /\ calls[k].buffer[1].source_id > calls[k].returned.source_id
    /\ \E k \in 1 .. Len(calls) :
          /\ calls[k].buffer = <<>>
          /\ calls[k].marker # -1
          /\ calls[k].returned = NULL

\* The offsets 1 .. n after cursor at which a device is free.
FreeOffsets(cursor) ==
    {i \in 1 .. num_devices : IsFree(devices[(cursor + i) % num_devices])}

FirstFreeAfter(cursor) ==
    LET i == CHOOSE x \in FreeOffsets(cursor) :
                 \A y \in FreeOffsets(cursor) : x <= y
    IN (cursor + i) % num_devices

\* C7: getFreeDevice returns the first free device in the order last_used+1,
\* last_used+2, ... (mod num_devices) and moves last_used to it; with every
\* device busy it returns nullptr and leaves last_used; from last_used = -1
\* with two free devices, three calls return devices 0, 1, 0.
RoundRobin ==
    /\ \A k \in 1 .. Len(calls) :
         LET c == calls[k] IN
         IF FreeOffsets(c.last_used) = {}
         THEN c.returned = -1 /\ c.last_used_after = c.last_used
         ELSE /\ c.returned = FirstFreeAfter(c.last_used)
              /\ c.last_used_after = c.returned
    /\ (/\ num_devices = 2
        /\ FreeOffsets(0) = {1, 2}
        /\ Len(calls) >= 3
        /\ calls[1].last_used = -1)
       => <<calls[1].returned, calls[2].returned, calls[3].returned>>
             = <<0, 1, 0>>

\* Three calls were made on two free devices from the initial last_used.
ThreeCallsOnTwoFreeDevices ==
    /\ num_devices = 2
    /\ FreeOffsets(0) = {1, 2}
    /\ Len(calls) = 3
    /\ calls[1].last_used = -1
    /\ calls[3].returned = 0

\* C8: for every request that completes service, arrival <= service start
\* <= completion: the waiting time added to its source's aggregate is >= 0,
\* the sojourn time added is >= the waiting time, and the busy time added
\* to the device (completion - service start) is >= 0.
AccountingOrder ==
    [][/\ \A s \in SourceIds :
            LET sojourn == source_total_time'[s] - source_total_time[s]
                waiting == source_waiting_time'[s] - source_waiting_time[s]
            IN  sojourn >= waiting /\ waiting >= 0
       /\ \A d \in DeviceIds : device_busy_time'[d] >= device_busy_time[d]
      ]_vars

\* A request that waited in the buffer and was then served for a positive
\* time has completed.
ServedAfterWaiting ==
    \E s \in SourceIds :
        /\ source_waiting_time[s] > 0
        /\ source_total_time[s] > source_waiting_time[s]

\* The number of copies of event e in calendar cal.
Pending_Copies(cal, e) == IF BagIn(e, cal) THEN CopiesIn(e, cal) ELSE 0

\* An event is processed in this step.
EventProcessed == calendar' # calendar

\* C9: the loop always processes a pending event of the smallest timestamp,
\* however ties are resolved: the clock never decreases, the clock of the
\* step is the timestamp of the processed event, that event leaves the
\* calendar in that step and no other event leaves it, and no pending event
\* is ever left behind the clock.
EventOrdering ==
    /\ [](\A e \in BagToSet(calendar) : e.time >= current_time)
    /\ [][/\ current_time' >= current_time
          /\ EventProcessed =>
               \E e \in BagToSet(calendar) :
                  /\ \A o \in BagToSet(calendar) : e.time <= o.time
                  /\ current_time' = e.time
                  /\ Pending_Copies(calendar', e) = CopiesIn(e, calendar) - 1
                  /\ \A o \in BagToSet(calendar) \ {e} :
                        Pending_Copies(calendar', o) >= CopiesIn(o, calendar)
         ]_vars

\* An event has been processed while another event of the same timestamp is
\* still pending, and a later event has been processed after a tie.
TieResolved ==
    /\ requests_generated > 1
    /\ requests_served > 0
    /\ \E e \in BagToSet(calendar) : e.time = current_time

\* One of the three stopping conditions of run() holds.
StopCondition ==
    \/ calendar = EmptyBag
    \/ current_time >= max_time
    \/ requests_served >= max_requests

\* C10: for every max_time and max_requests (inter-arrival intervals are at
\* least 3 ticks), every run reaches Stopped; when it has stopped one of the
\* stopping conditions holds; and no event is processed in a state where
\* one of them holds.
Termination ==
    /\ <>Stopped
    /\ [](Stopped => StopCondition)
    /\ [][EventProcessed => ~StopCondition]_vars

\* The run has stopped on the clock after processing events, with requests
\* still to serve.
StoppedByClock ==
    /\ Stopped
    /\ requests_generated > 0
    /\ current_time >= max_time
    /\ requests_served < max_requests
    /\ calendar # EmptyBag

\* C11: the served count never exceeds max_requests; with max_requests = 0
\* no event is processed, so at stop served, generated and rejected are 0
\* and the clock has not moved.
ServedCountBound ==
    /\ requests_served <= max_requests
    /\ max_requests = 0
       => /\ requests_generated = 0
          /\ requests_served = 0
          /\ requests_rejected = 0
          /\ current_time = 0
          /\ BagCardinality(calendar) = NumSources

\* A run with max_requests = 0 and time to spare has stopped without
\* generating a request.
StoppedWithoutServing ==
    /\ Stopped
    /\ max_requests = 0
    /\ max_time > 0
    /\ requests_generated = 0

\* The end-to-end scenario: interval 1.0 (2 ticks), service time 0.5 (1 tick),
\* capacity 1, max_requests 3.
EndToEndScenario ==
    /\ DOMAIN sources = {0}
    /\ DOMAIN devices = {0}
    /\ sources[0].min_int = 2 /\ sources[0].max_int = 3
    /\ devices[0].dist = {1}
    /\ max_size = 1
    /\ max_requests = 3

\* C12: in the end-to-end scenario arrivals are processed at t = 1, 2, 3
\* (ticks 2, 4, 6) and departures at t = 1.5, 2.5, 3.5 (ticks 3, 5, 7), every
\* request starts service at its arrival time and never enters the buffer,
\* and the run stops only with generated = 3, served = 3, rejected = 0 and
\* an accumulated waiting time of 0.
EndToEnd ==
    EndToEndScenario =>
       /\ current_time \in {0, 2, 3, 4, 5, 6, 7}
       /\ requests_generated = current_time \div 2
       /\ requests_served = (current_time + 1) \div 2 - 1
                              + (IF current_time = 0 THEN 1 ELSE 0)
       /\ buffer = <<>>
       /\ requests_rejected = 0
       /\ source_waiting_time[0] = 0
       /\ \A d \in BusyDevices :
             devices[d].current_request.start_service_time
                = devices[d].current_request.arrival_time
       /\ Stopped => /\ requests_generated = 3
                     /\ requests_served = 3
                     /\ current_time = 7
                     /\ source_total_time[0] = 3

\* The end-to-end scenario has run to its stop.
EndToEndStopped ==
    /\ EndToEndScenario
    /\ Stopped
    /\ requests_served = 3

\* The pending Departure events of device d.
DeparturesOf(d) ==
    {e \in BagToSet(calendar) : e.type = "DEPARTURE" /\ e.entity_id = d}

\* The Departure event of device d processed in this step, if any.
DepartureProcessed(d) ==
    \E e \in DeparturesOf(d) :
        /\ e.time = current_time'
        /\ e.request = devices[d].current_request
        /\ Pending_Copies(calendar', e) = CopiesIn(e, calendar) - 1
        /\ requests_served' = requests_served + 1

\* C13: startService is only invoked on a free device and finishService only
\* on a busy one: a device's occupant changes only by a start on the free
\* device or by the processing of that device's Departure event, and every
\* pending Departure event of device d carries exactly the request d holds,
\* so d is busy with it when the event is processed and no request in
\* service is overwritten.
DeviceOccupancyProtocol ==
    /\ [](\A d \in DeviceIds :
            /\ \A e \in DeparturesOf(d) :
                  /\ e.request # NULL
                  /\ devices[d].current_request = e.request
                  /\ CopiesIn(e, calendar) = 1
            /\ Cardinality(DeparturesOf(d)) <= 1)
    /\ [][\A d \in DeviceIds :
            devices'[d].current_request # devices[d].current_request
            => \/ IsFree(devices[d])
               \/ DepartureProcessed(d)
         ]_vars

\* A Departure of a busy device has been processed and the device has been
\* given a request that waited in the buffer.
DeviceReusedAfterDeparture ==
    \E d \in BusyDevices :
        /\ device_busy_time[d] > 0
        /\ devices[d].current_request.start_service_time
              > devices[d].current_request.arrival_time

\* The number of places (buffer slots and devices) that hold the request
\* of identity id.
Holders(id) ==
    Cardinality({i \in 1 .. Len(buffer) : Identity(buffer[i]) = id})
      + Cardinality({d \in BusyDevices :
                        Identity(devices[d].current_request) = id})

\* C14: after every event each generated request that has not been served or
\* rejected is held in exactly one place (one buffer slot or one device); a
\* freed request is in no buffer slot, on no device and in no pending
\* Departure event; nothing else is held.
SingleOwnership ==
    /\ freed \subseteq
         UNION {{<<s, n>> : n \in 1 .. source_requests[s]} : s \in SourceIds}
    /\ \A s \in SourceIds :
         \A n \in 1 .. source_requests[s] :
            IF <<s, n>> \in freed
            THEN /\ Holders(<<s, n>>) = 0
                 /\ \A e \in BagToSet(calendar) :
                       e.type = "DEPARTURE" => Identity(e.request) # <<s, n>>
            ELSE Holders(<<s, n>>) = 1
    /\ \A i \in 1 .. Len(buffer) :
         buffer[i].request_id \in 1 .. source_requests[buffer[i].source_id]
    /\ \A d \in BusyDevices :
         devices[d].current_request.request_id
            \in 1 .. source_requests[devices[d].current_request.source_id]

\* A served and a rejected request have been freed while other requests
\* wait in the buffer and are in service.
FreedServedAndRejected ==
    /\ requests_served > 0
    /\ requests_rejected > 0
    /\ Cardinality(freed) = requests_served + requests_rejected
    /\ buffer # <<>>
    /\ BusyDevices # {}

EarliestOf(buf, s) ==
    CHOOSE r \in RequestsIn(buf) :
        /\ r.source_id = s
        /\ \A o \in RequestsIn(buf) :
              o.source_id = s => r.request_id <= o.request_id

\* What a buffer kept in insertion order and scanned by index returns.
ReferenceSelectNext(buf, marker) ==
    IF buf = <<>> THEN NULL
    ELSE IF marker \in SourcesIn(buf) THEN EarliestOf(buf, marker)
    ELSE EarliestOf(buf, SmallestSource(buf))

ReferenceEvict(buf) ==
    IF buf = <<>> THEN NULL ELSE EarliestOf(buf, LargestSource(buf))

\* C16: in every sequence of insert, selectNext and evict operations the
\* queue-based buffer returns at every step the request a buffer kept in
\* insertion order returns: the earliest-inserted request of the chosen
\* source, and on eviction the earliest-inserted one of the largest source.
SelectionAsIndexedScan ==
    \A k \in 1 .. Len(calls) :
        /\ calls[k].op = "selectNext"
           => calls[k].returned =
                 ReferenceSelectNext(calls[k].buffer, calls[k].marker)
        /\ calls[k].op = "evict"
           => calls[k].returned = ReferenceEvict(calls[k].buffer)

\* C17: work conservation: after every processed event, a non-empty buffer
\* means that every device is busy; no request waits while a device is free.
WorkConservation == buffer # <<>> => AllBusy

\* Witness of C17: a device serves a request it pulled from the buffer (the
\* request waited before its service started) while the buffer still holds
\* a request.
PulledWhileOthersWait ==
    /\ buffer # <<>>
    /\ AllBusy
    /\ \E d \in DeviceIds :
          devices[d].current_request.start_service_time
              > devices[d].current_request.arrival_time

\* C18: whenever the handling of the Departure of device d pulls a request
\* from the buffer, the device selector returns d itself (the cursor moves to
\* d), never none and never another device: the pulled request leaves the
\* buffer, starts service on d at the current clock and gets a Departure
\* event of d scheduled, and no other device changes.
DispatchOnDeparture ==
    [][\A d \in DeviceIds :
         (DepartureProcessed(d) /\ buffer # <<>>)
         => LET pulled == devices'[d].current_request IN
            /\ pulled # NULL
            /\ pulled # devices[d].current_request
            /\ \E i \in 1 .. Len(buffer) :
                  /\ Identity(buffer[i]) = Identity(pulled)
                  /\ RequestsIn(buffer') = RequestsIn(buffer) \ {buffer[i]}
            /\ Len(buffer') = Len(buffer) - 1
            /\ pulled.start_service_time = current_time'
            /\ last_used' = d
            /\ \E e \in BagToSet(calendar') :
                  /\ e.type = "DEPARTURE"
                  /\ e.entity_id = d
                  /\ e.request = pulled
                  /\ e.time >= current_time'
                  /\ e.time - current_time' \in GetServiceTime(devices[d])
            /\ \A o \in DeviceIds \ {d} : devices'[o] = devices[o]
      ]_vars

\* Witness of C18: device d has just been given, at the current clock, a
\* request that waited in the buffer; the cursor points at d and the
\* Departure of d is pending.
DispatchedToDepartedDevice ==
    \E d \in DeviceIds :
        /\ devices[d].current_request # NULL
        /\ devices[d].current_request.start_service_time = current_time
        /\ devices[d].current_request.arrival_time < current_time
        /\ device_busy_time[d] > 0
        /\ last_used = d
        /\ DeparturesOf(d) # {}

\* The pending Arrival events of source s.
ArrivalsOf(s) ==
    {e \in BagToSet(calendar) : e.type = "ARRIVAL" /\ e.entity_id = s}

\* C19: after the constructor and after every processed event the calendar
\* holds exactly one pending Arrival event for each source, exactly one
\* pending Departure event for each busy device, carrying the device's
\* occupant, and no other event; so the calendar is never empty and the run
\* never stops because the calendar is empty.
CalendarShape ==
    /\ \A s \in SourceIds :
          /\ Cardinality(ArrivalsOf(s)) = 1
          /\ \A e \in ArrivalsOf(s) : CopiesIn(e, calendar) = 1
    /\ \A d \in DeviceIds :
          IF IsFree(devices[d])
          THEN DeparturesOf(d) = {}
          ELSE /\ Cardinality(DeparturesOf(d)) = 1
               /\ \A e \in DeparturesOf(d) :
                     /\ CopiesIn(e, calendar) = 1
                     /\ e.request = devices[d].current_request
    /\ \A e \in BagToSet(calendar) :
          \/ e.type = "ARRIVAL" /\ e.entity_id \in SourceIds
          \/ e.type = "DEPARTURE" /\ e.entity_id \in DeviceIds
    /\ BagCardinality(calendar) = NumSources + Cardinality(BusyDevices)
    /\ calendar # EmptyBag
    /\ Stopped => (current_time >= max_time \/ requests_served >= max_requests)

\* Witness of C19: after Arrivals and Departures have been processed the
\* calendar holds its largest population, one Arrival per source and the
\* Departure of each of the busy devices.
CalendarFullyPopulated ==
    /\ requests_served > 0
    /\ AllBusy
    /\ BagCardinality(calendar) = NumSources + NumDevices
    /\ \A d \in DeviceIds : DeparturesOf(d) # {}

\* C20: at stop, for every source s, the count the report divides the
\* accumulated sojourn and waiting times by equals the number of requests of
\* s that completed service, the requests whose times were accumulated.
ReportDivisor ==
    Stopped => \A s \in SourceIds : served_requests(s) = source_served[s]

====
